---- MODULE Spec2Model ----
(***************************************************************************)
(* The "Summarizing Website" notebook as a state machine.                  *)
(*                                                                         *)
(* The program is a Jupyter notebook: its state is the kernel's global     *)
(* namespace, and its operations are the executions of its code cells.     *)
(* An exception raised by a cell ends that cell only; the kernel and the   *)
(* names bound so far stay.  Python strings are sequences of one-character *)
(* strings; the long fixed literals of the notebook are single chunks.     *)
(* Python values that may be None are tagged records.                      *)
(***************************************************************************)
EXTENDS Integers, Sequences, FiniteSets

VARIABLES
    env_key,    \* os.environ["OPENAI_API_KEY"] as load_dotenv() leaves it
    site,       \* the parse tree of the HTML that the web server serves
    key_check,  \* how the credential cell last ended
    names,      \* the global names bound in the kernel
    page,       \* the Website object bound to the global `page`
    last        \* the record of the most recent cell execution

vars == <<env_key, site, key_check, names, page, last>>

----------------------------------------------------------------------------
(* Bounds of the model *)

MaxKeyLen == 4
MaxNodes == 3
MaxChoices == 2

----------------------------------------------------------------------------
(* Python values *)

NoneVal == [type |-> "NoneType"]
Str(s) == [type |-> "str", val |-> s]
IsStr(x) == x.type = "str"

Whitespace == {" ", "\n", "\t"}

RECURSIVE lstrip(_)
lstrip(s) ==
    IF s # <<>> /\ Head(s) \in Whitespace THEN lstrip(Tail(s)) ELSE s

RECURSIVE rstrip(_)
rstrip(s) ==
    IF s # <<>> /\ s[Len(s)] \in Whitespace
    THEN rstrip(SubSeq(s, 1, Len(s) - 1))
    ELSE s

\* str.strip()
strip(s) == rstrip(lstrip(s))

\* str.startswith(prefix)
startswith(s, prefix) ==
    /\ Len(s) >= Len(prefix)
    /\ SubSeq(s, 1, Len(prefix)) = prefix

RECURSIVE join(_, _)
\* separator.join(parts)
join(sep, parts) ==
    IF parts = <<>> THEN <<>>
    ELSE IF Len(parts) = 1 THEN parts[1]
    ELSE parts[1] \o sep \o join(sep, Tail(parts))

\* the formatting of a value inside an f-string
format(x) == IF IsStr(x) THEN x.val ELSE <<"N", "o", "n", "e">>

RECURSIVE SeqsUpTo(_, _)
\* the sequences over S of length at most n
SeqsUpTo(S, n) ==
    IF n = 0 THEN {<<>>}
    ELSE LET Shorter == SeqsUpTo(S, n - 1)
         IN  Shorter \cup {Append(s, c) : s \in Shorter, c \in S}

----------------------------------------------------------------------------
(* The credential cell (cell 144094b3) *)

KeyChars == {"s", "k", "-", " ", "a"}

\* the values os.getenv("OPENAI_API_KEY") can return
Keys == {NoneVal} \cup {Str(s) : s \in SeqsUpTo(KeyChars, MaxKeyLen)}

sk_prefix == <<"s", "k", "-">>

validate_strip_skipped(api_key) ==
    IF ~IsStr(api_key) \/ api_key.val = <<>> THEN "not_set"
    ELSE IF ~startswith(api_key.val, sk_prefix) THEN "bad_prefix"
    ELSE "valid"

\* the if / elif / elif / else chain: which branch is taken
validate(api_key) ==
    IF ~IsStr(api_key) \/ api_key.val = <<>> THEN "not_set"
    ELSE IF ~startswith(api_key.val, sk_prefix) THEN "bad_prefix"
    ELSE IF strip(api_key.val) # api_key.val THEN "whitespace"
    ELSE "valid"

Rejected == {"not_set", "bad_prefix", "whitespace"}

----------------------------------------------------------------------------
(* The parse tree BeautifulSoup(response.content, 'html.parser') builds.   *)
(* A document is the sequence of its nodes in document order; each node    *)
(* names its parent (0 is the soup itself).                                *)

Containers == {"title", "div"}
RawText == {"script", "style"}   \* their body is character data, never tags
Void == {"img", "input"}         \* empty elements: no children
ElementKinds == Containers \cup RawText \cup Void

Texts == {<<"a">>, <<" ", "b", " ">>, <<" ">>}

Element(k, p) == [kind |-> k, parent |-> p, text |-> <<>>]
TextNode(t, p) == [kind |-> "#text", parent |-> p, text |-> t]

RECURSIVE ancestors(_, _)
ancestors(d, i) ==
    IF d[i].parent = 0 THEN {}
    ELSE {d[i].parent} \cup ancestors(d, d[i].parent)

descendants(d, i) == {j \in 1..Len(d) : i \in ancestors(d, j)}

children(d, i) == {j \in 1..Len(d) : d[j].parent = i}

\* the elements still open when the parser has built d
OpenElements(d) ==
    IF d = <<>> THEN {0}
    ELSE {0} \cup
         {i \in {Len(d)} \cup ancestors(d, Len(d)) :
             d[i].kind \in Containers \cup RawText}

\* the nodes the parser can append to d
NextNodes(d) ==
    {Element(k, p) : k \in ElementKinds,
                     p \in {q \in OpenElements(d) :
                               q = 0 \/ d[q].kind \in Containers}}
    \cup
    {TextNode(t, p) : t \in Texts,
                      p \in {q \in OpenElements(d) :
                                \* adjacent character data is one string
                                ~(d # <<>> /\ d[Len(d)].kind = "#text"
                                           /\ d[Len(d)].parent = q)}}

RECURSIVE DocsOfLen(_)
DocsOfLen(n) ==
    IF n = 0 THEN {<<>>}
    ELSE UNION {{Append(d, nd) : nd \in NextNodes(d)} : d \in DocsOfLen(n - 1)}

Docs == UNION {DocsOfLen(n) : n \in 0..MaxNodes}

----------------------------------------------------------------------------
(* class Website (cell 866aeadc) *)

no_title_found == <<"No title found">>

RECURSIVE find_from(_, _, _)
\* the tags of the given kinds from node i on, in document order
find_from(d, kinds, i) ==
    IF i > Len(d) THEN <<>>
    ELSE IF d[i].kind \in kinds THEN <<i>> \o find_from(d, kinds, i + 1)
    ELSE find_from(d, kinds, i + 1)

\* soup(kinds), i.e. soup.find_all(kinds)
find_all(d, kinds) == find_from(d, kinds, 1)

\* soup.title: the first title tag of the document, 0 for None
soup_title(d) ==
    LET found == find_all(d, {"title"})
    IN  IF found = <<>> THEN 0 ELSE found[1]

RECURSIVE tag_string(_, _)
\* tag.string: the single string below the tag, None without a single child
tag_string(d, i) ==
    LET kids == children(d, i)
    IN  IF Cardinality(kids) # 1 THEN NoneVal
        ELSE LET c == CHOOSE k \in kids : TRUE
             IN  IF d[c].kind = "#text" THEN Str(d[c].text)
                 ELSE tag_string(d, c)

title_stripped(d) ==
    IF soup_title(d) # 0
    THEN LET s == tag_string(d, soup_title(d))
         IN  IF IsStr(s) THEN Str(strip(s.val)) ELSE s
    ELSE Str(no_title_found)

\* soup.title.string if soup.title else "No title found"
title_of(d) ==
    IF soup_title(d) # 0 THEN tag_string(d, soup_title(d))
    ELSE Str(no_title_found)

irrelevant_without_style == {"script", "img", "input"}

\* ['script', 'style', 'img', 'input']
irrelevant_kinds == {"script", "style", "img", "input"}

RECURSIVE decompose_all(_, _, _)
\* for irrelevant in tags: irrelevant.decompose()
decompose_all(d, tags, gone) ==
    IF tags = <<>> THEN gone
    ELSE decompose_all(d, Tail(tags),
                       gone \cup {Head(tags)} \cup descendants(d, Head(tags)))

RECURSIVE stripped_strings(_, _, _)
\* the strings left in the tree, each stripped, the empty ones dropped
stripped_strings(d, gone, i) ==
    IF i > Len(d) THEN <<>>
    ELSE IF d[i].kind = "#text" /\ i \notin gone /\ strip(d[i].text) # <<>>
    THEN <<strip(d[i].text)>> \o stripped_strings(d, gone, i + 1)
    ELSE stripped_strings(d, gone, i + 1)

separator == <<" ", "\n">>

\* soup.get_text(separator=' \n', strip=True)
get_text(d, gone) == join(separator, stripped_strings(d, gone, 1))

\* what requests.get(url) can do: raise, or return a response
FetchOutcomes ==
    {[ok |-> FALSE, exc |-> "ConnectionError", status |-> 0]}
    \cup {[ok |-> TRUE, exc |-> "", status |-> s] : s \in {200, 404}}

Website_init_swallowing(url, got, d) ==
    IF ~got.ok
    THEN [raised |-> "",
          self |-> [url |-> url, title |-> Str(no_title_found), content |-> <<>>],
          calls |-> <<"requests.get">>]
    ELSE [raised |-> "",
          self |-> [url |-> url,
                    title |-> title_of(d),
                    content |-> get_text(d, decompose_all(
                                   d, find_all(d, irrelevant_kinds), {}))],
          calls |-> <<"requests.get", "BeautifulSoup", "get_text">>]

\* Website.__init__(self, url), with the outcome of its requests.get(url)
\* and the tree d parsed from the response's content
Website_init(url, got, d) ==
    IF ~got.ok
    THEN [raised |-> got.exc, self |-> NoneVal, calls |-> <<"requests.get">>]
    ELSE [raised |-> "",
          self |-> [url |-> url,
                    title |-> title_of(d),
                    content |-> get_text(d, decompose_all(
                                   d, find_all(d, irrelevant_kinds), {}))],
          calls |-> <<"requests.get", "BeautifulSoup", "get_text">>]

----------------------------------------------------------------------------
(* The prompts (cell a836c8bf) *)

system_prompt ==
    <<"You are an assistant that analyzes the contents of a website and provides a short summary, ignoring text that might be navigation related. Respond in markdown.">>

titled_prefix == <<"You are looking at a website titled ">>

instruction ==
    <<"\nThe contents of this website is as follows; please provide a short summary of this website in markdown. If it includes news or announcements, then summarize these too.\n\n">>

user_prompt_content_first(website) ==
    website.content \o titled_prefix \o format(website.title) \o instruction

\* user_prompt_for(website)
user_prompt_for(website) ==
    titled_prefix \o format(website.title) \o instruction \o website.content

\* message_for(website)
message_for(website) ==
    << [role |-> "system", content |-> system_prompt],
       [role |-> "user", content |-> user_prompt_for(website)] >>

----------------------------------------------------------------------------
(* The OpenAI call (cell 97fe4b61) *)

\* the exceptions of the openai client, all subclasses of openai.APIError
ApiErrors == {"AuthenticationError", "RateLimitError", "APIConnectionError"}

\* message.content of a completion choice: a string, or None
Contents ==
    {NoneVal, Str(<<>>), Str(<<" ", "a", " ">>), Str(<<"b">>)}

List(s) == [type |-> "list", val |-> s]

\* what openai.chat.completions.create(...) can do: raise, or return a
\* response whose choices are a list of contents, or absent
LLMOutcomes ==
    {[ok |-> FALSE, exc |-> e, choices |-> NoneVal] : e \in ApiErrors}
    \cup {[ok |-> TRUE, exc |-> "", choices |-> NoneVal]}
    \cup {[ok |-> TRUE, exc |-> "", choices |-> List(c)] :
             c \in SeqsUpTo(Contents, MaxChoices)}

NoLLM == [ok |-> FALSE, exc |-> "", choices |-> NoneVal]

create_with_retry(llm) ==
    IF llm.ok
    THEN [raised |-> "", calls |-> <<"chat.completions.create">>]
    ELSE [raised |-> llm.exc,
          calls |-> <<"chat.completions.create", "chat.completions.create">>]

\* response = openai.chat.completions.create(model="gpt-4o-mini", messages=messages)
create(llm) ==
    [raised |-> IF llm.ok THEN "" ELSE llm.exc,
     calls |-> <<"chat.completions.create">>]

last_choice_content(choices) ==
    IF choices.type # "list" THEN [raised |-> "TypeError", value |-> NoneVal]
    ELSE IF choices.val = <<>> THEN [raised |-> "IndexError", value |-> NoneVal]
    ELSE IF ~IsStr(choices.val[Len(choices.val)])
    THEN [raised |-> "AttributeError", value |-> NoneVal]
    ELSE [raised |-> "", value |-> Str(strip(choices.val[Len(choices.val)].val))]

empty_summary_for_no_choice(choices) ==
    IF choices.type # "list" \/ choices.val = <<>> \/ ~IsStr(choices.val[1])
    THEN [raised |-> "", value |-> Str(<<>>)]
    ELSE [raised |-> "", value |-> Str(strip(choices.val[1].val))]

\* response.choices[0].message.content.strip()
first_choice_content(choices) ==
    IF choices.type # "list" THEN [raised |-> "TypeError", value |-> NoneVal]
    ELSE IF choices.val = <<>> THEN [raised |-> "IndexError", value |-> NoneVal]
    ELSE IF ~IsStr(choices.val[1])
    THEN [raised |-> "AttributeError", value |-> NoneVal]
    ELSE [raised |-> "", value |-> Str(strip(choices.val[1].val))]

Outcome(calls, raised, returned) ==
    [calls |-> calls, raised |-> raised, returned |-> returned]

\* summarize_website(url) up to its request, run with the global names
\* `bound` and the outcome `got` of its page fetch of tree d: raised is ""
\* when the request is reached
prepare(bound, url, got, d) ==
    IF "Website" \notin bound
    THEN [calls |-> <<>>, raised |-> "NameError", messages |-> <<>>]
    ELSE LET w == Website_init(url, got, d) IN
    IF w.raised # ""
    THEN [calls |-> w.calls, raised |-> w.raised, messages |-> <<>>]
    ELSE IF "message_for" \notin bound
    THEN [calls |-> w.calls, raised |-> "NameError", messages |-> <<>>]
    ELSE IF "openai" \notin bound
    THEN [calls |-> w.calls \o <<"message_for", "user_prompt_for">>,
          raised |-> "NameError", messages |-> message_for(w.self)]
    ELSE [calls |-> w.calls \o <<"message_for", "user_prompt_for">>,
          raised |-> "", messages |-> message_for(w.self)]

\* summarize_website(url), p being its run up to the request and llm the
\* outcome of the request
summarize_website(p, llm) ==
    IF p.raised # "" THEN Outcome(p.calls, p.raised, NoneVal)
    ELSE LET r == create(llm) IN
    IF r.raised # "" THEN Outcome(p.calls \o r.calls, r.raised, NoneVal)
    ELSE LET c == first_choice_content(llm.choices) IN
    Outcome(p.calls \o r.calls, c.raised, c.value)

----------------------------------------------------------------------------
(* The cells *)

BooksUrl == "https://books.toscrape.com/"
CnnUrl == "https://www.cnn.com/"

InCalls(c, calls) == \E i \in 1..Len(calls) : calls[i] = c

\* how the requests.get of a run ended: "" when the run made none
Fetched(calls, got) ==
    IF ~InCalls("requests.get", calls) THEN ""
    ELSE IF got.ok THEN "ok" ELSE got.exc

\* the outcome of the request of a run: NoLLM when the run made none
Asked(calls, llm) ==
    IF InCalls("chat.completions.create", calls) THEN llm ELSE NoLLM

Ran(cell, url, o, fetch, llm, out) ==
    [cell |-> cell, url |-> url, calls |-> o.calls, raised |-> o.raised,
     returned |-> o.returned, fetch |-> fetch, llm |-> llm, out |-> out]

NoCall(raised) == Outcome(<<>>, raised, NoneVal)

Idle == Ran("", "", NoCall(""), "", NoLLM, <<>>)

\* cell 144094b3: load_dotenv(); api_key = os.getenv(...); the checks;
\* openai = OpenAI() is reached only when no check raised
RunCell_144094b3 ==
    /\ key_check' = validate(env_key)
    /\ names' = IF validate(env_key) = "valid"
                THEN names \cup {"openai"} ELSE names
    /\ last' = Ran("144094b3", "",
                   NoCall(IF validate(env_key) = "valid" THEN "" ELSE "ValueError"),
                   "", NoLLM, <<>>)
    /\ UNCHANGED <<env_key, site, page>>

\* cell 866aeadc: class Website
RunCell_866aeadc ==
    /\ names' = names \cup {"Website"}
    /\ last' = Ran("866aeadc", "", NoCall(""), "", NoLLM, <<>>)
    /\ UNCHANGED <<env_key, site, key_check, page>>

\* cell 35ed7781: page = Website("https://books.toscrape.com/"), then the
\* two prints
RunCell_35ed7781 ==
    \E got \in FetchOutcomes :
       LET w == Website_init(BooksUrl, got, site) IN
       IF "Website" \notin names
       THEN /\ last' = Ran("35ed7781", BooksUrl, NoCall("NameError"), "", NoLLM, <<>>)
            /\ UNCHANGED <<env_key, site, key_check, names, page>>
       ELSE IF w.raised # ""
       THEN /\ last' = Ran("35ed7781", BooksUrl, Outcome(w.calls, w.raised, NoneVal),
                           Fetched(w.calls, got), NoLLM, <<>>)
            /\ UNCHANGED <<env_key, site, key_check, names, page>>
       ELSE /\ page' = w.self
            /\ names' = names \cup {"page"}
            /\ last' = Ran("35ed7781", BooksUrl, Outcome(w.calls, "", NoneVal),
                           Fetched(w.calls, got), NoLLM, <<>>)
            /\ UNCHANGED <<env_key, site, key_check>>

\* cell a836c8bf: system_prompt, user_prompt_for and message_for are bound,
\* then message_for(page) is evaluated and shown
RunCell_a836c8bf ==
    /\ names' = names \cup {"message_for"}
    /\ last' = IF "page" \in names
               THEN Ran("a836c8bf", "",
                        Outcome(<<"message_for", "user_prompt_for">>, "", NoneVal),
                        "", NoLLM, message_for(page))
               ELSE Ran("a836c8bf", "", NoCall("NameError"), "", NoLLM, <<>>)
    /\ UNCHANGED <<env_key, site, key_check, page>>

\* cell 97fe4b61: def summarize_website, def display_summary
RunCell_97fe4b61 ==
    /\ names' = names \cup {"summarize_website"}
    /\ last' = Ran("97fe4b61", "", NoCall(""), "", NoLLM, <<>>)
    /\ UNCHANGED <<env_key, site, key_check, page>>

\* display(Markdown(f"### Summary of {url}\n\n{summary}"))
markdown(url, summary) ==
    <<"### Summary of ", url, "\n", "\n">> \o format(summary)

\* display_summary(url)
display_summary(cell, url) ==
    \E got \in FetchOutcomes :
       LET p == prepare(names, url, got, site) IN
       \E llm \in IF p.raised = "" THEN LLMOutcomes ELSE {NoLLM} :
          LET o == summarize_website(p, llm) IN
          /\ last' = IF "summarize_website" \notin names
                     THEN Ran(cell, url, NoCall("NameError"), "", NoLLM, <<>>)
                     ELSE Ran(cell, url, o, Fetched(o.calls, got),
                              Asked(o.calls, llm),
                              IF o.raised # "" THEN <<>>
                              ELSE markdown(url, o.returned))
          /\ UNCHANGED <<env_key, site, key_check, names, page>>

\* cell 825b5da7: display_summary("https://books.toscrape.com/")
RunCell_825b5da7 == display_summary("825b5da7", BooksUrl)

\* cell d5732897: display_summary("https://www.cnn.com/")
RunCell_d5732897 == display_summary("d5732897", CnnUrl)

----
(* The session: a fresh kernel whose cells are run in any order *)

Fresh ==
    /\ key_check = "not_run"
    /\ names = {}
    /\ page = NoneVal
    /\ last = Idle

sk_a == <<"s", "k", "-", "a">>

\* credentials a session starts with: absent, without the prefix, with
\* trailing whitespace, well-formed
SessionKeys ==
    {NoneVal, Str(<<"a", "b", "c", "-", "1", "2", "3">>),
     Str(sk_a \o <<" ">>), Str(sk_a)}

\* <title> b </title><script>a</script><div>a</div> and <title></title>
SessionSites ==
    { << Element("title", 0), TextNode(<<" ", "b", " ">>, 1),
         Element("script", 0), TextNode(<<"a">>, 3),
         Element("div", 0), TextNode(<<"a">>, 5) >>,
      << Element("title", 0) >> }

Init ==
    /\ env_key \in SessionKeys
    /\ site \in SessionSites
    /\ Fresh

Next ==
    \/ RunCell_144094b3
    \/ RunCell_866aeadc
    \/ RunCell_35ed7781
    \/ RunCell_a836c8bf
    \/ RunCell_97fe4b61
    \/ RunCell_825b5da7
    \/ RunCell_d5732897

Spec == Init /\ [][Next]_vars

(* The credential cell alone, over every credential up to MaxKeyLen *)

InitCred ==
    /\ env_key \in Keys
    /\ site = <<>>
    /\ Fresh

NextCred == RunCell_144094b3

SpecCred == InitCred /\ [][NextCred]_vars

(* The Website class and the prompts, over every page up to MaxNodes *)

InitExtract ==
    /\ env_key = NoneVal
    /\ site \in Docs
    /\ Fresh

NextExtract ==
    \/ RunCell_866aeadc
    \/ RunCell_35ed7781
    \/ RunCell_a836c8bf

SpecExtract == InitExtract /\ [][NextExtract]_vars

----------------------------------------------------------------------------
(* Vocabulary of the properties *)

SummaryCells == {"825b5da7", "d5732897"}

\* the last cell run called summarize_website(url)
Invoked == last.cell \in SummaryCells /\ "summarize_website" \in names

Count(c, calls) == Cardinality({i \in 1..Len(calls) : calls[i] = c})

\* the run made neither an HTTP fetch nor a request to the LLM
NoNetworkCall(calls) ==
    /\ ~InCalls("requests.get", calls)
    /\ ~InCalls("chat.completions.create", calls)

\* a step taken after a rejected credential makes no network call
QuietAfterRejection ==
    key_check \in Rejected => NoNetworkCall(last'.calls)

\* t is s without its leading and trailing whitespace
IsTrimOf(t, s) ==
    \E a, b \in 0..Len(s) :
       /\ a + b <= Len(s)
       /\ t = SubSeq(s, a + 1, Len(s) - b)
       /\ \A k \in 1..a : s[k] \in Whitespace
       /\ \A k \in (Len(s) - b + 1)..Len(s) : s[k] \in Whitespace
       /\ t # <<>> => (t[1] \notin Whitespace /\ t[Len(t)] \notin Whitespace)

\* the first title element of the document, in document order
HasTitle(d) == \E i \in 1..Len(d) : d[i].kind = "title"
FirstTitle(d) ==
    CHOOSE i \in 1..Len(d) :
       d[i].kind = "title" /\ \A j \in 1..(i - 1) : d[j].kind # "title"

\* the nodes below i reached through only children alone
OnlyChildChain(d, i) ==
    {j \in descendants(d, i) :
        \A k \in ({j} \cup ancestors(d, j)) \ ({i} \cup ancestors(d, i)) :
           Cardinality(children(d, d[k].parent)) = 1}

RECURSIVE TextBelow(_, _, _)
\* the text of element i: its strings, concatenated in document order
TextBelow(d, i, j) ==
    IF j > Len(d) THEN <<>>
    ELSE IF d[j].kind = "#text" /\ i \in ancestors(d, j)
    THEN d[j].text \o TextBelow(d, i, j + 1)
    ELSE TextBelow(d, i, j + 1)

RemovedKinds == {"script", "style", "img", "input"}

\* the text nodes with no ancestor of a removed kind
Visible(d) ==
    {i \in 1..Len(d) :
        /\ d[i].kind = "#text"
        /\ \A a \in ancestors(d, i) : d[a].kind \notin RemovedKinds}

TrimOf(s) == CHOOSE t \in {SubSeq(s, a, b) : a \in 1..(Len(s) + 1), b \in 0..Len(s)} :
                IsTrimOf(t, s)

RECURSIVE VisibleFragments(_, _)
VisibleFragments(d, i) ==
    IF i > Len(d) THEN <<>>
    ELSE IF i \in Visible(d) /\ TrimOf(d[i].text) # <<>>
    THEN <<TrimOf(d[i].text)>> \o VisibleFragments(d, i + 1)
    ELSE VisibleFragments(d, i + 1)

----------------------------------------------------------------------------
(* Properties *)

\* C1: when the requests.get of summarize_website(url) raises, that
\* exception reaches the caller unchanged, nothing is returned or displayed,
\* and neither message_for / user_prompt_for nor
\* openai.chat.completions.create is called in that invocation.
C1_FetchFailurePropagates ==
    (Invoked /\ last.fetch \notin {"", "ok"}) =>
        /\ last.raised = last.fetch
        /\ last.returned = NoneVal
        /\ last.out = <<>>
        /\ ~InCalls("message_for", last.calls)
        /\ ~InCalls("user_prompt_for", last.calls)
        /\ ~InCalls("chat.completions.create", last.calls)

\* a session in which every name is bound and the fetch of a
\* summarize_website call has just failed
C1_Witness ==
    /\ Invoked
    /\ last.fetch = "ConnectionError"
    /\ {"Website", "message_for", "openai"} \subseteq names

\* C2: once the credential cell has rejected the credential, no cell run
\* that follows makes a network call: neither an HTTP fetch nor a request
\* to the LLM.
C2_NoNetworkAfterRejection ==
    [][QuietAfterRejection]_vars

\* C3: a summarize_website(url) that returns has made exactly the calls
\* requests.get, the parse and text extraction, message_for /
\* user_prompt_for, and one chat.completions.create, in this order; and no
\* invocation, returning or raising, makes either network call twice.
C3_TwoCallsInOrder ==
    Invoked =>
        /\ last.raised = "" =>
              last.calls = <<"requests.get", "BeautifulSoup", "get_text",
                             "message_for", "user_prompt_for",
                             "chat.completions.create">>
        /\ Count("requests.get", last.calls) <= 1
        /\ Count("chat.completions.create", last.calls) <= 1
        /\ \A i, j \in 1..Len(last.calls) :
              (last.calls[i] = "chat.completions.create"
                 /\ last.calls[j] = "requests.get") => j < i

\* a summarize_website call that returned a summary
C3_Witness ==
    /\ Invoked
    /\ last.raised = ""
    /\ IsStr(last.returned)
    /\ last.fetch = "ok"
    /\ last.llm.ok

\* C9: when the fetch and the request both succeed and the first choice
\* carries text, summarize_website(url) returns that text without its
\* leading and trailing whitespace, whatever the later choices hold; and
\* it returns nothing but such a text.
C9_ReturnsFirstChoiceTrimmed ==
    Invoked =>
        /\ (/\ last.fetch = "ok"
            /\ last.llm.ok
            /\ last.llm.choices.type = "list"
            /\ last.llm.choices.val # <<>>
            /\ IsStr(last.llm.choices.val[1])) =>
               /\ last.raised = ""
               /\ IsStr(last.returned)
               /\ IsTrimOf(last.returned.val, last.llm.choices.val[1].val)
        /\ last.returned # NoneVal =>
               /\ last.llm.ok
               /\ last.llm.choices.type = "list"
               /\ last.llm.choices.val # <<>>
               /\ IsStr(last.llm.choices.val[1])
               /\ IsStr(last.returned)
               /\ IsTrimOf(last.returned.val, last.llm.choices.val[1].val)

\* a response with two different choices, the first with whitespace
\* around its text, and the trimmed first text returned
C9_Witness ==
    /\ Invoked
    /\ last.llm.ok
    /\ last.llm.choices = List(<<Str(<<" ", "a", " ">>), Str(<<"b">>)>>)
    /\ last.returned = Str(<<"a">>)

C4_AsStated ==
    "page" \in names =>
        IF HasTitle(site)
        THEN /\ IsStr(page.title)
             /\ IsTrimOf(page.title.val, TextBelow(site, FirstTitle(site), 1))
        ELSE page.title = Str(no_title_found)

\* C4 as amended: the title of a page with a title element is the string
\* reached from that element through only children, verbatim and with its
\* surrounding whitespace kept, and None when there is no such string (the
\* element is empty or has several children); the title of a page without
\* a title element is "No title found".
C4_TitleIsTheRawString ==
    "page" \in names =>
        IF HasTitle(site)
        THEN LET chain == {j \in OnlyChildChain(site, FirstTitle(site)) :
                              site[j].kind = "#text"}
             IN  /\ \A j \in chain : page.title = Str(site[j].text)
                 /\ chain = {} => page.title = NoneVal
        ELSE page.title = Str(no_title_found)

\* a page whose title element holds " b ", kept with its whitespace
C4_Witness ==
    /\ "page" \in names
    /\ HasTitle(site)
    /\ children(site, FirstTitle(site)) # {}
    /\ page.title = Str(<<" ", "b", " ">>)

\* C5: the title of every constructed Website is a non-empty string.
C5_TitleNonEmptyString ==
    "page" \in names => (IsStr(page.title) /\ page.title.val # <<>>)

\* C6: the content of a page is exactly its text nodes that have no
\* ancestor of kind script, style, img or input, each trimmed, the empty
\* ones left out, joined in document order by " \n"; so no text from
\* inside a removed element is in it.
C6_ContentIsVisibleText ==
    "page" \in names =>
        page.content = join(<<" ", "\n">>, VisibleFragments(site, 1))

\* a page with text inside a removed element and text outside one
C6_Witness ==
    /\ "page" \in names
    /\ \E i \in 1..Len(site) :
          /\ site[i].kind = "#text"
          /\ i \notin Visible(site)
          /\ TrimOf(site[i].text) # <<>>
    /\ \E i \in Visible(site) : TrimOf(site[i].text) # <<>>
    /\ page.content # <<>>

\* C7: message_for(page) is two messages, [system, user]: the first has
\* the content system_prompt; the content of the second is the title line
\* (the fixed opening, then the title as Python formats it), then the
\* instruction sentence, then the whole content of the page as its suffix.
C7_TwoMessages ==
    (last.cell = "a836c8bf" /\ last.raised = "") =>
        LET m == last.out
            c == m[2].content
            n == Len(c) - Len(page.content)
        IN  /\ Len(m) = 2
            /\ m[1].role = "system"
            /\ m[1].content = system_prompt
            /\ m[2].role = "user"
            /\ n >= 2
            /\ SubSeq(c, n + 1, Len(c)) = page.content
            /\ c[1] = "You are looking at a website titled "
            /\ SubSeq(c, 2, n - 1) = format(page.title)
            /\ <<c[n]>> = instruction

\* message_for evaluated on a page with a title string and some content
C7_Witness ==
    /\ last.cell = "a836c8bf"
    /\ last.raised = ""
    /\ IsStr(page.title)
    /\ page.title # Str(no_title_found)
    /\ Len(page.content) > 1

\* C8: the credential cell accepts a credential exactly when it is a
\* non-empty string that starts with "sk-" and neither starts nor ends with
\* whitespace; it answers every other credential with a ValueError and
\* leaves the client unbound.
C8_AcceptsExactlyWellFormed ==
    key_check # "not_run" =>
        LET wellformed ==
                /\ IsStr(env_key)
                /\ Len(env_key.val) >= 3
                /\ env_key.val[1] = "s"
                /\ env_key.val[2] = "k"
                /\ env_key.val[3] = "-"
                /\ env_key.val[Len(env_key.val)] \notin Whitespace
        IN  /\ wellformed <=> (key_check = "valid" /\ last.raised = "")
            /\ ~wellformed <=> (key_check \in Rejected /\ last.raised = "ValueError")
            /\ "openai" \in names <=> wellformed

\* a credential with the prefix and a trailing blank, rejected
C8_Witness ==
    /\ key_check = "whitespace"
    /\ IsStr(env_key)
    /\ startswith(env_key.val, sk_prefix)
    /\ last.raised = "ValueError"

====
